---- MODULE Spec2Model ----
(***************************************************************************)
(* Model of adetailer/prompt_processor.py: removal of excluded words and   *)
(* phrases from a comma/bracket structured prompt.                         *)
(*                                                                         *)
(* A Python str is a sequence of one-character strings.  The regular       *)
(* expressions of the source are modelled by scanners that follow the      *)
(* matching rules of Python's re module (leftmost match, non-overlapping   *)
(* substitution, \b evaluated on the string being scanned).                *)
(***************************************************************************)
EXTENDS Integers, Sequences, FiniteSets

VARIABLES prompt, exclusion_text, exclusion_words, result, pc

vars == <<prompt, exclusion_text, exclusion_words, result, pc>>

----------------------------------------------------------------------------
(* Characters *)

\* str.isspace() / the regex class \s, on the characters of the model
IsSpace(c) == c \in {" ", "\n"}

\* the regex class \w (alphanumerics and the underscore)
IsWordChar(c) == c \in {"a", "b", "A", "B", "_"}

\* str.isalnum()
IsAlnum(c) == c \in {"a", "b", "A", "B"}

\* str.lower() on one character
LowerChar(c) == CASE c = "A" -> "a" [] c = "B" -> "b" [] OTHER -> c

\* str.lower()
lower(s) == [i \in 1..Len(s) |-> LowerChar(s[i])]

----------------------------------------------------------------------------
(* str methods *)

Slice(s, i, j) == IF i > j THEN <<>> ELSE SubSeq(s, i, j)

RECURSIVE lstrip(_)
lstrip(s) == IF s # <<>> /\ IsSpace(s[1]) THEN lstrip(Tail(s)) ELSE s

RECURSIVE rstrip(_)
rstrip(s) ==
  IF s # <<>> /\ IsSpace(s[Len(s)]) THEN rstrip(Slice(s, 1, Len(s) - 1)) ELSE s

\* str.strip()
strip(s) == rstrip(lstrip(s))

RECURSIVE lstrip_comma(_)
lstrip_comma(s) == IF s # <<>> /\ s[1] = "," THEN lstrip_comma(Tail(s)) ELSE s

RECURSIVE rstrip_comma(_)
rstrip_comma(s) ==
  IF s # <<>> /\ s[Len(s)] = ","
  THEN rstrip_comma(Slice(s, 1, Len(s) - 1)) ELSE s

\* str.strip(',')
strip_comma(s) == rstrip_comma(lstrip_comma(s))

\* str.split(sep) for a one-character sep: always at least one piece
RECURSIVE split(_, _)
split(s, sep) ==
  IF \A i \in 1..Len(s) : s[i] # sep
  THEN <<s>>
  ELSE LET i == CHOOSE k \in 1..Len(s) :
                  s[k] = sep /\ \A m \in 1..(k - 1) : s[m] # sep
       IN  <<Slice(s, 1, i - 1)>> \o split(Slice(s, i + 1, Len(s)), sep)

\* str.splitlines(): like split on the line break, without a last empty line
splitlines(s) ==
  LET pieces == split(s, "\n")
  IN  IF pieces[Len(pieces)] = <<>>
      THEN Slice(pieces, 1, Len(pieces) - 1) ELSE pieces

\* ', '.join(segments)
RECURSIVE join(_)
join(segments) ==
  IF segments = <<>> THEN <<>>
  ELSE IF Len(segments) = 1 THEN segments[1]
  ELSE segments[1] \o <<",", " ">> \o join(Tail(segments))

----------------------------------------------------------------------------
(* parse_exclusion_words *)

\* line 19: one stripped, lowercased word per line
stripped_lines(exclusion_text_) ==
  LET lines == splitlines(exclusion_text_)
  IN  [i \in 1..Len(lines) |-> lower(strip(lines[i]))]

\* line 21 left out: the empty lines stay
drop_empty_kept(words) == words

\* line 21: the empty lines are dropped
drop_empty(words) == SelectSeq(words, LAMBDA w : w # <<>>)

parse_exclusion_words(exclusion_text_) ==
  IF exclusion_text_ = <<>> THEN {}
  ELSE LET words == drop_empty(stripped_lines(exclusion_text_))
       IN  {words[i] : i \in 1..Len(words)}

\* The orders in which a set of words can be iterated: the order of a Python
\* set of str depends on the hashes of its members, which differ from one
\* interpreter to the next.
IterationOrders(S) ==
  {o \in [1..Cardinality(S) -> S] : \A w \in S : \E i \in DOMAIN o : o[i] = w}

----------------------------------------------------------------------------
(* Regular expressions of clean_prompt_with_exclusions *)

\* \b at offset i of s (between s[i] and s[i+1]; 0 and Len(s) are the edges)
WordBoundary(s, i) ==
  LET before == i >= 1 /\ IsWordChar(s[i])
      after  == i < Len(s) /\ IsWordChar(s[i + 1])
  IN  before # after

\* line 84: r'\b' + re.escape(exclusion_lower) + r'\b' matches s from index i
exclusion_pattern(exclusion_lower, s, i, ignorecase) ==
  LET n == Len(exclusion_lower)
  IN  /\ i + n - 1 <= Len(s)
      /\ WordBoundary(s, i - 1)
      /\ \A k \in 1..n :
           IF ignorecase
           THEN LowerChar(s[i + k - 1]) = LowerChar(exclusion_lower[k])
           ELSE s[i + k - 1] = exclusion_lower[k]
      /\ WordBoundary(s, i + n - 1)

\* line 85: re.search(exclusion_pattern, segment_lower)
re_search(exclusion_lower, segment_lower) ==
  \E i \in 1..(Len(segment_lower) + 1) :
    exclusion_pattern(exclusion_lower, segment_lower, i, FALSE)

\* line 87: re.sub(exclusion_pattern, '', segment, flags=re.IGNORECASE),
\* scanning from index i: leftmost matches, not overlapping, each replaced by
\* the empty string
RECURSIVE re_sub(_, _, _)
re_sub(exclusion_lower, segment, i) ==
  IF i > Len(segment) THEN <<>>
  ELSE IF exclusion_lower # <<>>
          /\ exclusion_pattern(exclusion_lower, segment, i, TRUE)
       THEN re_sub(exclusion_lower, segment, i + Len(exclusion_lower))
       ELSE <<segment[i]>> \o re_sub(exclusion_lower, segment, i + 1)

\* line 102: re.sub(r'\s+', ' ', result)
RECURSIVE collapse_from(_, _)
collapse_from(s, i) ==
  IF i > Len(s) THEN <<>>
  ELSE IF IsSpace(s[i])
       THEN IF i > 1 /\ IsSpace(s[i - 1])
            THEN collapse_from(s, i + 1)
            ELSE <<" ">> \o collapse_from(s, i + 1)
       ELSE <<s[i]>> \o collapse_from(s, i + 1)

\* line 102 left out
collapse_spaces_skipped(s) == s

collapse_spaces(s) == collapse_from(s, 1)

\* the index after the whitespace run that starts at i
RECURSIVE skip_spaces(_, _)
skip_spaces(s, i) ==
  IF i <= Len(s) /\ IsSpace(s[i]) THEN skip_spaces(s, i + 1) ELSE i

\* line 103: re.sub(r'\s*,\s*', ', ', result), scanning from index i
RECURSIVE normalize_from(_, _)
normalize_from(s, i) ==
  IF i > Len(s) THEN <<>>
  ELSE LET c == skip_spaces(s, i)
       IN  IF c <= Len(s) /\ s[c] = ","
           THEN <<",", " ">> \o normalize_from(s, skip_spaces(s, c + 1))
           ELSE <<s[i]>> \o normalize_from(s, i + 1)

normalize_commas(s) == normalize_from(s, 1)

\* line 104: result.strip().strip(',').strip()
strip_result(s) == strip(strip_comma(strip(s)))

----------------------------------------------------------------------------
(* clean_prompt_with_exclusions *)

\* lines 77-79 left out: only the search of line 85 decides
exact_match_skipped(segment_lower, exclusion_lower) == FALSE

\* line 77: the whole segment is an exclusion
exact_match(segment_lower, exclusion_lower) == segment_lower = exclusion_lower

\* lines 73-93: the loop over the exclusions, from the k-th in iteration
\* order; segment_lower is computed once before the loop (line 70) and is
\* not updated when the segment is
RECURSIVE exclusion_loop(_, _, _, _)
exclusion_loop(segment, segment_lower, order, k) ==
  IF k > Len(order) THEN [segment_should_be_kept |-> TRUE, segment |-> segment]
  ELSE LET exclusion_lower == lower(order[k])
       IN  IF exact_match(segment_lower, exclusion_lower)
           THEN [segment_should_be_kept |-> FALSE, segment |-> segment]
           ELSE IF re_search(exclusion_lower, segment_lower)
           THEN LET replaced == strip(re_sub(exclusion_lower, segment, 1))
                IN  IF replaced = <<>>
                    THEN [segment_should_be_kept |-> FALSE,
                          segment |-> replaced]
                    ELSE exclusion_loop(replaced, segment_lower, order, k + 1)
           ELSE exclusion_loop(segment, segment_lower, order, k + 1)

\* lines 64-96: the loop over the segments, giving cleaned_segments
RECURSIVE segment_loop(_, _)
segment_loop(segments, order) ==
  IF segments = <<>> THEN <<>>
  ELSE LET segment == segments[1]
           rest == segment_loop(Tail(segments), order)
       IN  IF segment = <<>> THEN rest
           ELSE LET r == exclusion_loop(segment, lower(segment), order, 1)
                IN  IF r.segment_should_be_kept /\ strip(r.segment) # <<>>
                    THEN <<strip(r.segment)>> \o rest
                    ELSE rest

\* line 61: [segment.strip() for segment in result.split(',')]
split_segments(s) ==
  LET pieces == split(s, ",") IN [i \in 1..Len(pieces) |-> strip(pieces[i])]

\* lines 99-104: join and clean up the artefacts
reconstitute(cleaned_segments) ==
  strip_result(normalize_commas(collapse_spaces(join(cleaned_segments))))

IsOpening(c) == c \in {"(", "["}
IsClosing(c) == c \in {")", "]"}

\* line 46
closing_bracket(bracket_type) == IF bracket_type = "(" THEN ")" ELSE "]"

\* the end of the match of r'([\(\[])(.*?)([\)\]])' that starts at the opening
\* bracket s[i]: the first closing bracket after i, of either kind, with no
\* line break before it ('.' does not match one); 0 when there is no match
first_closing(s, i) ==
  IF \E j \in (i + 1)..Len(s) : IsClosing(s[j])
  THEN LET j == CHOOSE k \in (i + 1)..Len(s) :
                  IsClosing(s[k]) /\ \A m \in (i + 1)..(k - 1) : ~IsClosing(s[m])
       IN  IF \E m \in (i + 1)..(j - 1) : s[m] = "\n" THEN 0 ELSE j
  ELSE 0

RECURSIVE clean_prompt_with_exclusions(_, _)
RECURSIVE sub_brackets(_, _, _)

\* lines 43-55
clean_bracketed_content(bracket_type, content, order) ==
  LET cleaned_content == clean_prompt_with_exclusions(content, order)
  IN  IF strip(cleaned_content) = <<>> THEN <<>>
      ELSE <<bracket_type>> \o cleaned_content
             \o <<closing_bracket(bracket_type)>>

\* line 58: re.sub(r'([\(\[])(.*?)([\)\]])', clean_bracketed_content, result),
\* scanning from index i
sub_brackets(s, order, i) ==
  IF i > Len(s) THEN <<>>
  ELSE LET j == IF IsOpening(s[i]) THEN first_closing(s, i) ELSE 0
       IN  IF j # 0
           THEN clean_bracketed_content(s[i], Slice(s, i + 1, j - 1), order)
                  \o sub_brackets(s, order, j + 1)
           ELSE <<s[i]>> \o sub_brackets(s, order, i + 1)

\* lines 26-106; order is the set exclusion_words in its iteration order
clean_prompt_with_exclusions(prompt_, order) ==
  IF prompt_ = <<>> \/ order = <<>> THEN prompt_
  ELSE reconstitute(
         segment_loop(split_segments(sub_brackets(prompt_, order, 1)), order))

\* lines 109-124
process_prompt_with_exclusions(prompt_, exclusion_text_, order) ==
  IF exclusion_text_ = <<>> THEN prompt_
  ELSE clean_prompt_with_exclusions(prompt_, order)

----------------------------------------------------------------------------
(* The inputs *)

\* longest prompt of words, spaces and commas
MaxWordsLen == 5

\* longest prompt with brackets
MaxBracketsLen == 5

\* longest prompt with punctuation
MaxPunctLen == 4

\* the strings over an alphabet, up to a length
Strings(alphabet, n) == UNION {[1..k -> alphabet] : k \in 0..n}

WordsAlphabet == {"a", "A", "b", " ", ","}

BracketsAlphabet == {"a", "(", ")", "[", "]", ","}

PunctAlphabet == {"a", "!", "_", " ", ","}

\* exclusion texts: empty, blank lines only, one word, a phrase, overlapping terms
WordsTexts ==
  { <<>>,
    <<" ">>,
    <<"\n", " ", "\n">>,
    <<"a">>,
    <<" ", "A", " ", "b", " ">>,
    <<"b", "\n", "\n", "a", " ", "b">>,
    <<"a", "\n", "b">> }

\* exclusion texts for the prompts with brackets
BracketsTexts ==
  { <<"a">>,
    <<"b">> }

\* exclusion texts with punctuation
PunctTexts ==
  { <<"a">>,
    <<"!">>,
    <<"a", "\n", "!">>,
    <<"a", "!">> }

InitWords ==
  /\ prompt \in Strings(WordsAlphabet, MaxWordsLen)
  /\ exclusion_text \in WordsTexts

InitBrackets ==
  /\ prompt \in Strings(BracketsAlphabet, MaxBracketsLen)
  /\ exclusion_text \in BracketsTexts

InitPunct ==
  /\ prompt \in Strings(PunctAlphabet, MaxPunctLen)
  /\ exclusion_text \in PunctTexts

----------------------------------------------------------------------------
(* The calls *)

\* no call of process_prompt_with_exclusions made yet
Init ==
  /\ InitWords \/ InitBrackets \/ InitPunct
  /\ exclusion_words = <<>>
  /\ result = <<>>
  /\ pc = "idle"

\* process_prompt_with_exclusions(prompt, exclusion_text); exclusion_words
\* is the parsed set in the order in which this interpreter iterates it
Process ==
  /\ pc = "idle"
  /\ exclusion_words' \in IterationOrders(parse_exclusion_words(exclusion_text))
  /\ result' = process_prompt_with_exclusions(prompt, exclusion_text,
                                              exclusion_words')
  /\ pc' = "done"
  /\ UNCHANGED <<prompt, exclusion_text>>

\* process_prompt_with_exclusions(result, exclusion_text): the same
\* exclusions applied to the result of the first call, in the same
\* interpreter (the same text parsed again gives the same iteration order)
Reprocess ==
  /\ pc = "done"
  /\ prompt' = result
  /\ result' = process_prompt_with_exclusions(result, exclusion_text,
                                              exclusion_words)
  /\ pc' = "redone"
  /\ UNCHANGED <<exclusion_text, exclusion_words>>

Next == Process \/ Reprocess

Spec == Init /\ [][Next]_vars

TypeOK ==
  /\ pc \in {"idle", "done", "redone"}
  /\ exclusion_words \in IterationOrders(parse_exclusion_words(exclusion_text))
       \cup {<<>>}

----------------------------------------------------------------------------
(* Vocabulary of the properties *)

\* the exclusion set of the call
ExclusionSet == {exclusion_words[i] : i \in 1..Len(exclusion_words)}

\* the exclusion text has no term: it is empty or all its lines are blank
IsBlankText(text) == \A i \in 1..Len(text) : text[i] \in {" ", "\n"}

HasBrackets(s) == \E i \in 1..Len(s) : IsOpening(s[i]) \/ IsClosing(s[i])

HasComma(s) == \E i \in 1..Len(s) : s[i] = ","

\* no comma followed by a comma (whitespace between them or not), no leading
\* or trailing comma, no two whitespace characters in a row
CleanPunctuation(s) ==
  /\ \A i \in 1..Len(s) : \A j \in (i + 1)..Len(s) :
       ~(/\ s[i] = ","
         /\ s[j] = ","
         /\ \A m \in (i + 1)..(j - 1) : IsSpace(s[m]))
  /\ s # <<>> => s[1] # "," /\ s[Len(s)] # ","
  /\ \A i \in 1..(Len(s) - 1) : ~(IsSpace(s[i]) /\ IsSpace(s[i + 1]))

\* t occurs in s bounded on both sides by a non-alphanumeric character or an
\* edge of s (the whole-word match of the glossary)
WholeWordOccurs(t, s) ==
  \E i \in 1..(Len(s) - Len(t) + 1) :
    /\ SubSeq(s, i, i + Len(t) - 1) = t
    /\ i = 1 \/ ~IsAlnum(s[i - 1])
    /\ i + Len(t) > Len(s) \/ ~IsAlnum(s[i + Len(t)])

\* t is s with some characters deleted
RECURSIVE IsSubsequence(_, _)
IsSubsequence(t, s) ==
  IF t = <<>> THEN TRUE
  ELSE IF s = <<>> THEN FALSE
  ELSE IF t[1] = s[1] THEN IsSubsequence(Tail(t), Tail(s))
  ELSE IsSubsequence(t, Tail(s))

\* t is a contiguous part of s
IsSubstring(t, s) ==
  \E i \in 1..(Len(s) - Len(t) + 1) : SubSeq(s, i, i + Len(t) - 1) = t

\* each of outs comes from one of ins by deleting characters, in the same
\* relative order and no two from the same one
RECURSIVE Embeds(_, _)
Embeds(outs, ins) ==
  IF outs = <<>> THEN TRUE
  ELSE IF ins = <<>> THEN FALSE
  ELSE IF IsSubsequence(outs[1], ins[1]) THEN Embeds(Tail(outs), Tail(ins))
  ELSE Embeds(outs, Tail(ins))

NonEmpty(seqs) == SelectSeq(seqs, LAMBDA x : x # <<>>)

\* the comma-delimited segments of s, trimmed, the empty ones left out
Segments(s) == NonEmpty(split_segments(s))

\* s is its segments joined by ", " and nothing else
JoinedByCommaSpace(s) ==
  /\ s = join(split_segments(s))
  /\ s # <<>> => \A i \in 1..Len(split_segments(s)) : split_segments(s)[i] # <<>>

\* a segment with its whitespace runs collapsed to one space
Collapsed(segments) == [i \in 1..Len(segments) |-> collapse_spaces(segments[i])]

\* the segments of s that are not an exclusion term, ignoring case
Survivors(s, terms) == SelectSeq(Segments(s), LAMBDA x : lower(x) \notin terms)

\* the bracket characters of s, in order
BracketsOf(s) == SelectSeq(s, LAMBDA c : IsOpening(c) \/ IsClosing(c))

\* s has an opening bracket and the closing bracket of its kind with nothing
\* or only whitespace between them
HasEmptyBracketPair(s) ==
  \E i \in 1..Len(s) : \E j \in (i + 1)..Len(s) :
    /\ \/ s[i] = "(" /\ s[j] = ")"
       \/ s[i] = "[" /\ s[j] = "]"
    /\ \A m \in (i + 1)..(j - 1) : IsSpace(s[m])

\* the round brackets of s are balanced
BalancedRound(s) ==
  LET Count(c, i) == Cardinality({k \in 1..i : s[k] = c})
  IN  /\ \A i \in 1..Len(s) : Count(")", i) <= Count("(", i)
      /\ Count(")", Len(s)) = Count("(", Len(s))

\* the whitespace-delimited words of s
WordsOf(s) ==
  NonEmpty(split([i \in 1..Len(s) |-> IF IsSpace(s[i]) THEN " " ELSE s[i]], " "))

\* a word without its punctuation: word characters and hyphens stay
StripPunctuation(w) == SelectSeq(w, LAMBDA c : IsWordChar(c) \/ c = "-")

----------------------------------------------------------------------------
(* Properties *)

\* C1: applying the same exclusions to the result of a call once more
\* changes nothing: process(process(p, e), e) = process(p, e)
Idempotent == pc = "redone" => result = prompt

\* C2: the result is the same for every order in which the exclusion set is
\* iterated
OrderIndependent ==
  pc = "done" =>
    \A order \in IterationOrders(ExclusionSet) :
      process_prompt_with_exclusions(prompt, exclusion_text, order) = result

\* C3 as stated: for every prompt and every exclusion text the result has no
\* doubled, leading or trailing comma and no run of whitespace
AlwaysCleanPunctuation == pc = "done" => CleanPunctuation(result)

\* C3 amended: the result has no doubled, leading or trailing comma and no
\* run of whitespace whenever the exclusion text has at least one term
CleanPunctuationWithTerms ==
  pc # "idle" /\ ~IsBlankText(exclusion_text) => CleanPunctuation(result)

\* a prompt with doubled commas or spaces has been cleaned to a result that
\* is not empty
CleanedUp ==
  /\ pc = "done"
  /\ ~IsBlankText(exclusion_text)
  /\ ~CleanPunctuation(prompt)
  /\ HasComma(result)

\* C4: the prompt is returned unchanged when the exclusion text is empty or
\* has only blank lines, and an empty prompt is returned unchanged
NoOpWithoutTerms ==
  pc = "done" /\ (IsBlankText(exclusion_text) \/ prompt = <<>>)
    => result = prompt

\* a prompt that a cleaning would change came back unchanged for a text of
\* blank lines
BlankLinesNoOp ==
  /\ pc = "done"
  /\ exclusion_text # <<>>
  /\ \E i \in 1..Len(exclusion_text) : exclusion_text[i] = "\n"
  /\ IsBlankText(exclusion_text)
  /\ ~CleanPunctuation(prompt)
  /\ result = prompt

\* C5: no comma-delimited segment of the result has a whole-word occurrence
\* of an exclusion term, ignoring case
WholeWordsRemoved ==
  pc = "done" /\ exclusion_words # <<>> =>
    \A t \in ExclusionSet :
      LET segments == split(result, ",")
      IN  \A i \in 1..Len(segments) : ~WholeWordOccurs(t, lower(segments[i]))

\* C6 as stated: for a prompt without brackets and every exclusion set, the
\* result is segments joined by ", " that come, in order, from the segments
\* of the prompt that are not an exclusion term
ExactSegmentsDropped ==
  pc = "done" /\ ~HasBrackets(prompt) =>
    /\ JoinedByCommaSpace(result)
    /\ Embeds(Segments(result), Survivors(prompt, ExclusionSet))

\* C6 amended: the same for every exclusion set that is not empty
ExactSegmentsDroppedWithTerms ==
  pc = "done" /\ ~HasBrackets(prompt) /\ exclusion_words # <<>> =>
    /\ JoinedByCommaSpace(result)
    /\ Embeds(Segments(result), Survivors(prompt, ExclusionSet))

\* a segment written with a capital equals the second term iterated, the
\* first term iterated is a word of it, and another segment survives
ExactSegmentDropped ==
  /\ pc = "done"
  /\ ~HasBrackets(prompt)
  /\ Len(exclusion_words) = 2
  /\ \E i \in 1..Len(Segments(prompt)) :
       /\ Segments(prompt)[i] # lower(Segments(prompt)[i])
       /\ lower(Segments(prompt)[i]) = exclusion_words[2]
       /\ re_search(exclusion_words[1], lower(Segments(prompt)[i]))
  /\ result # <<>>

\* C7: the result has no bracket pair with empty or blank content, and a
\* prompt that is one group comes back as the cleaned inner text between the
\* same delimiters, or as nothing when the cleaned inner text is empty
\* (stated for the prompts whose brackets are all round and balanced and
\* that have no empty pair themselves, where the closing bracket chosen at
\* line 46 plays no part)
GroupsCleaned ==
  (/\ pc = "done"
   /\ exclusion_words # <<>>
   /\ \A i \in 1..Len(prompt) : prompt[i] \notin {"[", "]"}
   /\ BalancedRound(prompt)
   /\ ~HasEmptyBracketPair(prompt)) =>
    /\ ~HasEmptyBracketPair(result)
    /\ (/\ Len(prompt) >= 2
        /\ prompt[1] = "("
        /\ prompt[Len(prompt)] = ")"
        /\ ~HasBrackets(Slice(prompt, 2, Len(prompt) - 1)))
         => LET inner == clean_prompt_with_exclusions(
                           Slice(prompt, 2, Len(prompt) - 1), exclusion_words)
            IN  result = IF inner = <<>> THEN <<>>
                         ELSE <<"(">> \o inner \o <<")">>

\* C8: for a prompt without brackets in which no term has a whole-word
\* match, the result is the segments of the prompt, trimmed, whitespace runs
\* collapsed, the empty ones dropped, joined by ", "
NonMatchingOnlyNormalized ==
  (/\ pc = "done"
   /\ ~HasBrackets(prompt)
   /\ exclusion_words # <<>>
   /\ \A t \in ExclusionSet : ~WholeWordOccurs(t, lower(prompt)))
    => result = join(Collapsed(Segments(prompt)))

\* C9: the bracket characters of the result are bracket characters of the
\* prompt, in the same order: none is changed into another
BracketsKept ==
  pc = "done" => IsSubsequence(BracketsOf(result), BracketsOf(prompt))

\* C10: in a prompt of one segment, a word that is a term once its
\* punctuation is stripped leaves nothing behind, and no word of the result
\* is made of parts of the prompt that a removed match separated: each word
\* of the result is a contiguous part of a word of the prompt that is not a
\* term
WordUnitsDropped ==
  pc = "done" /\ exclusion_words # <<>>
    /\ ~HasBrackets(prompt) /\ ~HasComma(prompt) =>
    \A i \in 1..Len(WordsOf(result)) :
      \E j \in 1..Len(WordsOf(prompt)) :
        /\ StripPunctuation(lower(WordsOf(prompt)[j])) \notin ExclusionSet
        /\ IsSubstring(WordsOf(result)[i], WordsOf(prompt)[j])

====
